---- MODULE Spec2Model ----
(***************************************************************************)
(* Model of the password policy evaluator (utils/passwordValidation.ts)    *)
(* and of the signup form that gates account creation on it.               *)
(*                                                                         *)
(* A JavaScript string is modelled as the sequence of its UTF-16 code      *)
(* units (natural numbers), because that is what String.length, the        *)
(* regular expressions without the u flag and String.includes work on.     *)
(* Weights are kept in half points (1 -> 2, 0.5 -> 1) so that the score    *)
(* stays an integer; every comparison of score / maxScore with a decimal   *)
(* threshold is cross-multiplied.  No reachable ratio k/14 is within       *)
(* floating-point error of 0.4, 0.6 or 0.8, so the integer comparison      *)
(* decides exactly as the double comparison does.                          *)
(***************************************************************************)
EXTENDS Integers, Sequences, FiniteSets, TLC, Bags

(***************************************************************************)
(* Bounds of the model                                                     *)
(***************************************************************************)
\* number of characters typed after a pasted text
MaxAppend == 4
\* number of calls the application's callers make in one run
MaxCalls == 4

(***************************************************************************)
(* Characters and strings                                                  *)
(***************************************************************************)
\* /[A-Z]/
UPPER_CLASS == 65..90
\* LOWER_CLASS with the Latin-1 small letters added, as a Unicode-aware
\* class would have them
LOWER_CLASS_LATIN1 == (97..122) \cup (223..255)

\* /[a-z]/
LOWER_CLASS == 97..122

\* /\d/ and [0-9] (no u flag: ASCII digits only)
DIGIT_CLASS == 48..57
\* the items of the class [!@#$%^&*()_+\-=\[\]{};':"\\|,.<>\/?], in order
SPECIAL_CLASS_ITEMS ==
  <<33, 64, 35, 36, 37, 94, 38, 42, 40, 41, 95, 43, 45, 61, 91, 93, 123, 125,
    59, 39, 58, 34, 92, 124, 44, 46, 60, 62, 47, 63>>
SPECIAL_CLASS == {SPECIAL_CLASS_ITEMS[i] : i \in 1..Len(SPECIAL_CLASS_ITEMS)}
\* the code units the regular-expression dot does not match: LF, CR, LS, PS
LINE_TERMINATORS == {10, 13, 8232, 8233}

\* TestClass with every in place of some: true of the empty string
TestClassEvery(class, password) ==
  \A i \in 1..Len(password) : password[i] \in class

\* RegExp.prototype.test for a pattern that is one character class
TestClass(class, password) ==
  \E i \in 1..Len(password) : password[i] \in class

\* String.prototype.toLowerCase, one code unit at a time.  ASCII and Latin-1
\* capitals move by 32, the Kelvin sign becomes k, capital I with dot above
\* becomes i followed by a combining dot; everything else used here is
\* unchanged.
LowerUnit(u) ==
  IF u \in 65..90 THEN <<u + 32>>
  ELSE IF u \in (192..222) \ {215} THEN <<u + 32>>
  ELSE IF u = 8490 THEN <<107>>
  ELSE IF u = 304 THEN <<105, 775>>
  ELSE <<u>>

RECURSIVE toLowerCase(_)
toLowerCase(password) ==
  IF password = <<>> THEN <<>>
  ELSE LowerUnit(Head(password)) \o toLowerCase(Tail(password))

\* String.prototype.includes
includes(haystack, needle) ==
  \E i \in 0..(Len(haystack) - Len(needle)) :
    SubSeq(haystack, i + 1, i + Len(needle)) = needle

\* TestTripleRepeat with the quantifier {1,}: two in a row are enough
TestDoubleRepeat(password) ==
  \E i \in 1..(Len(password) - 1) :
    /\ password[i] \notin LINE_TERMINATORS
    /\ password[i + 1] = password[i]

\* /(.)\1{2,}/.test(password): some unit the dot matches, three times in a row
TestTripleRepeat(password) ==
  \E i \in 1..(Len(password) - 2) :
    /\ password[i] \notin LINE_TERMINATORS
    /\ password[i + 1] = password[i]
    /\ password[i + 2] = password[i]

\* TestAllDigits with the class negated: non-empty and no ASCII digit
TestNoDigits(password) ==
  /\ Len(password) >= 1
  /\ \A i \in 1..Len(password) : password[i] \notin DIGIT_CLASS

\* /^[0-9]+$/.test(password): non-empty and nothing but ASCII digits
TestAllDigits(password) ==
  /\ Len(password) >= 1
  /\ \A i \in 1..Len(password) : password[i] \in DIGIT_CLASS

\* const common = ['password', '123456', 'qwerty', 'abc123', 'password123']
common ==
  << <<112, 97, 115, 115, 119, 111, 114, 100>>,
     <<49, 50, 51, 52, 53, 54>>,
     <<113, 119, 101, 114, 116, 121>>,
     <<97, 98, 99, 49, 50, 51>>,
     <<112, 97, 115, 115, 119, 111, 114, 100, 49, 50, 51>> >>

(***************************************************************************)
(* The two rule tables                                                     *)
(***************************************************************************)
PASSWORD_REQUIREMENTS ==
  << [message |-> "At least 8 characters", weight |-> 2],
     [message |-> "At least one uppercase letter", weight |-> 2],
     [message |-> "At least one lowercase letter", weight |-> 2],
     [message |-> "At least one number", weight |-> 2],
     [message |-> "At least one special character (!@#$%^&*()_+-=[]{}|;:,.<>?)",
      weight |-> 2] >>

ADDITIONAL_REQUIREMENTS ==
  << [message |-> "At least 12 characters (recommended)", weight |-> 1],
     [message |-> "No more than 2 consecutive identical characters", weight |-> 1],
     [message |-> "Not entirely numeric", weight |-> 1],
     [message |-> "Not a common password pattern", weight |-> 1] >>

\* RequiredTest with the length rule bounded above as well: 8 to 12
RequiredTestLengthCapped(i, password) ==
  CASE i = 1 -> Len(password) >= 8 /\ Len(password) <= 12
    [] i = 2 -> TestClass(UPPER_CLASS, password)
    [] i = 3 -> TestClass(LOWER_CLASS, password)
    [] i = 4 -> TestClass(DIGIT_CLASS, password)
    [] i = 5 -> TestClass(SPECIAL_CLASS, password)

\* RequiredTest with the length rule written password.length > 8
RequiredTestStrictLength(i, password) ==
  CASE i = 1 -> Len(password) > 8
    [] i = 2 -> TestClass(UPPER_CLASS, password)
    [] i = 3 -> TestClass(LOWER_CLASS, password)
    [] i = 4 -> TestClass(DIGIT_CLASS, password)
    [] i = 5 -> TestClass(SPECIAL_CLASS, password)

\* PASSWORD_REQUIREMENTS[i].test(password)
RequiredTest(i, password) ==
  CASE i = 1 -> Len(password) >= 8
    [] i = 2 -> TestClass(UPPER_CLASS, password)
    [] i = 3 -> TestClass(LOWER_CLASS, password)
    [] i = 4 -> TestClass(DIGIT_CLASS, password)
    [] i = 5 -> TestClass(SPECIAL_CLASS, password)

\* NoTripleRepeatTest with the negation left out
NoTripleRepeatTestInverted(password) == TestTripleRepeat(password)

NoTripleRepeatTest(password) == ~TestTripleRepeat(password)

\* NotCommonTest without toLowerCase
NotCommonTestCaseSensitive(password) ==
  ~(\E k \in 1..Len(common) : includes(password, common[k]))

NotCommonTest(password) ==
  ~(\E k \in 1..Len(common) : includes(toLowerCase(password), common[k]))

\* AdditionalTest with 10 as the recommended length
AdditionalTestLength10(i, password) ==
  CASE i = 1 -> Len(password) >= 10
    [] i = 2 -> NoTripleRepeatTest(password)
    [] i = 3 -> ~TestAllDigits(password)
    [] i = 4 -> NotCommonTest(password)

\* ADDITIONAL_REQUIREMENTS[i].test(password)
AdditionalTest(i, password) ==
  CASE i = 1 -> Len(password) >= 12
    [] i = 2 -> NoTripleRepeatTest(password)
    [] i = 3 -> ~TestAllDigits(password)
    [] i = 4 -> NotCommonTest(password)

(***************************************************************************)
(* validatePassword                                                        *)
(***************************************************************************)
RECURSIVE SumWeights(_, _)
SumWeights(reqs, n) ==
  IF n = 0 THEN 0 ELSE SumWeights(reqs, n - 1) + reqs[n].weight

maxScore ==
  SumWeights(PASSWORD_REQUIREMENTS, Len(PASSWORD_REQUIREMENTS))
    + SumWeights(ADDITIONAL_REQUIREMENTS, Len(ADDITIONAL_REQUIREMENTS))

\* RequiredLoop with errors.unshift in place of errors.push
RECURSIVE RequiredLoopUnshift(_, _, _, _)
RequiredLoopUnshift(password, errors0, score0, n) ==
  IF n = 0 THEN [errors |-> errors0, score |-> score0]
  ELSE LET before == RequiredLoopUnshift(password, errors0, score0, n - 1)
           requirement == PASSWORD_REQUIREMENTS[n]
       IN  IF ~RequiredTest(n, password)
           THEN [errors |-> <<requirement.message>> \o before.errors,
                 score |-> before.score]
           ELSE [errors |-> before.errors,
                 score |-> before.score + requirement.weight]

\* the first loop, after its first n iterations, started with the given
\* errors array and score
RECURSIVE RequiredLoop(_, _, _, _)
RequiredLoop(password, errors0, score0, n) ==
  IF n = 0 THEN [errors |-> errors0, score |-> score0]
  ELSE LET before == RequiredLoop(password, errors0, score0, n - 1)
           requirement == PASSWORD_REQUIREMENTS[n]
       IN  IF ~RequiredTest(n, password)
           THEN [errors |-> Append(before.errors, requirement.message),
                 score |-> before.score]
           ELSE [errors |-> before.errors,
                 score |-> before.score + requirement.weight]

\* the second loop, after its first n iterations
RECURSIVE AdditionalLoop(_, _, _)
AdditionalLoop(password, score0, n) ==
  IF n = 0 THEN score0
  ELSE LET before == AdditionalLoop(password, score0, n - 1)
       IN  IF AdditionalTest(n, password)
           THEN before + ADDITIONAL_REQUIREMENTS[n].weight
           ELSE before

\* DetermineStrength with 0.5 as the first threshold
DetermineStrengthWeakBelowHalf(points) ==
  IF 10 * points < 5 * maxScore THEN "weak"
  ELSE IF 10 * points < 6 * maxScore THEN "fair"
  ELSE IF 10 * points < 8 * maxScore THEN "good"
  ELSE "strong"

\* DetermineStrength with the second and third thresholds exchanged
DetermineStrengthSwapped(points) ==
  IF 10 * points < 4 * maxScore THEN "weak"
  ELSE IF 10 * points < 8 * maxScore THEN "fair"
  ELSE IF 10 * points < 6 * maxScore THEN "good"
  ELSE "strong"

\* DetermineStrength with a condition on the last branch and no default
DetermineStrengthNoDefault(points) ==
  IF 10 * points < 4 * maxScore THEN "weak"
  ELSE IF 10 * points < 6 * maxScore THEN "fair"
  ELSE IF 10 * points < 8 * maxScore THEN "good"
  ELSE IF 10 * points < 10 * maxScore THEN "strong"
  ELSE "undefined"

\* DetermineStrength with strong from a ratio of 0.7
DetermineStrengthStrongFromSeventy(points) ==
  IF 10 * points < 4 * maxScore THEN "weak"
  ELSE IF 10 * points < 6 * maxScore THEN "fair"
  ELSE IF 10 * points < 7 * maxScore THEN "good"
  ELSE "strong"

\* the if / else-if chain on strengthRatio = score / maxScore
DetermineStrength(points) ==
  IF 10 * points < 4 * maxScore THEN "weak"
  ELSE IF 10 * points < 6 * maxScore THEN "fair"
  ELSE IF 10 * points < 8 * maxScore THEN "good"
  ELSE "strong"

\* ValidateFrom with the body of the first loop repeated in the second: a
\* failing advisory rule pushes its message too
ValidateFromReportingAdditional(password, errors0, score0) ==
  LET required == RequiredLoop(password, errors0, score0,
                               Len(PASSWORD_REQUIREMENTS))
      total == AdditionalLoop(password, required.score,
                              Len(ADDITIONAL_REQUIREMENTS))
      failing == SelectSeq(<<1, 2, 3, 4>>,
                           LAMBDA i : ~AdditionalTest(i, password))
  IN  [errors |-> required.errors \o
                  [k \in DOMAIN failing |->
                     ADDITIONAL_REQUIREMENTS[failing[k]].message],
       score |-> total,
       strength |-> DetermineStrength(total)]

\* the locals of validatePassword when it returns, given the values its
\* locals errors and score start with
ValidateFrom(password, errors0, score0) ==
  LET required == RequiredLoop(password, errors0, score0,
                               Len(PASSWORD_REQUIREMENTS))
      total == AdditionalLoop(password, required.score,
                              Len(ADDITIONAL_REQUIREMENTS))
  IN  [errors |-> required.errors,
       score |-> total,
       strength |-> DetermineStrength(total)]

\* validatePassword as a function of its argument
validatePassword(password) ==
  LET locals == ValidateFrom(password, <<>>, 0)
  IN  [isValid |-> Len(locals.errors) = 0,
       errors |-> locals.errors,
       strength |-> locals.strength]

\* getPasswordStrengthColor with one green for both good and strong
getPasswordStrengthColorOneGreen(strength) ==
  CASE strength = "weak" -> "#ff4444"
    [] strength = "fair" -> "#ff8800"
    [] strength = "good" -> "#44aa44"
    [] strength = "strong" -> "#44aa44"
    [] OTHER -> "#cccccc"

\* the switch of getPasswordStrengthColor, with its default
getPasswordStrengthColor(strength) ==
  CASE strength = "weak" -> "#ff4444"
    [] strength = "fair" -> "#ff8800"
    [] strength = "good" -> "#44aa44"
    [] strength = "strong" -> "#00aa00"
    [] OTHER -> "#cccccc"

\* getPasswordStrengthText without the case for strong
getPasswordStrengthTextNoStrong(strength) ==
  CASE strength = "weak" -> "Weak"
    [] strength = "fair" -> "Fair"
    [] strength = "good" -> "Good"
    [] OTHER -> ""

\* the switch of getPasswordStrengthText, with its default
getPasswordStrengthText(strength) ==
  CASE strength = "weak" -> "Weak"
    [] strength = "fair" -> "Fair"
    [] strength = "good" -> "Good"
    [] strength = "strong" -> "Strong"
    [] OTHER -> ""

(***************************************************************************)
(* State                                                                   *)
(***************************************************************************)
VARIABLES
  \* the locals of validatePassword's frame, as the last call left them
  errors, score, strength,
  \* a caller that evaluates one text after another (testPasswordValidation):
  \* whether it has made a call, the argument and result of its latest call,
  \* and those of the call before when the latest argument is the previous
  \* one with a character appended
  evaluated, password, validation, hasPrev, prevPassword, prevValidation,
  appended,
  \* the callers in the application, each with the argument and result of
  \* its latest call and the number that call had among all calls
  called, arg, ret, callAt, callCount,
  \* the signup screen: the form fields, the per-field error texts, the
  \* loaded prompt categories, the prompt answers, what the strength
  \* indicator shows, the state of the signup mutation and the body of the
  \* latest POST /users
  formData, fieldErrors, loadingPrompts, promptCategories, selectedAnswers,
  indicator, mutationStatus, request,
  \* the API client: its token field, the storage behind platformStorage,
  \* the storage operations started and not yet settled, and the fetch
  \* calls made so far, and which of setToken and clearToken was called
  \* last
  token, storage, pendingOps, sent, lastTokenCall,
  \* the service method being called: its name and argument, where it
  \* stands, the error raised inside it and what it returned or threw
  svc,
  \* the AuthProvider: its user and isLoading states, where loadUserData
  \* stands, and where the latest logout stands with the token the API
  \* client held when it began
  user, isLoading, load, logout,
  \* the profile screen's showDeleteModal and isDeleting states, the
  \* delete-account modal's confirmationText and error states, the calls the
  \* modal has made to its onConfirm prop with the text and the isDeleting
  \* prop it had at the call, the alerts shown, and the onConfirm promises
  \* not yet settled
  showDeleteModal, isDeleting, confirmationText, error, onConfirmCalls,
  alerts, confirming

frameVars == <<errors, score, strength>>
evalVars == <<evaluated, password, validation, hasPrev, prevPassword,
              prevValidation, appended>>
callVars == <<called, arg, ret, callAt, callCount>>
signupVars == <<formData, fieldErrors, loadingPrompts, promptCategories,
                selectedAnswers, indicator, mutationStatus, request>>
clientVars == <<token, storage, pendingOps, sent, lastTokenCall>>
serviceVars == <<svc>>
authVars == <<user, isLoading, load, logout>>
\* the state of the evaluator and of the signup screen
passwordVars == <<frameVars, evalVars, callVars, signupVars>>
\* the state of the rest of the application
profileVars == <<showDeleteModal, isDeleting, alerts, confirming>>
modalVars == <<confirmationText, error, onConfirmCalls>>
deleteVars == <<profileVars, modalVars>>
appVars == <<clientVars, serviceVars, authVars, deleteVars>>
vars == <<passwordVars, appVars>>

\* RunValidatePassword with the errors array declared outside the function:
\* it is not emptied between calls
RunValidatePasswordSharedErrors(text) ==
  LET locals == ValidateFrom(text, errors, 0)
  IN  /\ errors' = locals.errors
      /\ score' = locals.score
      /\ strength' = locals.strength

\* one execution of validatePassword(text): the locals are initialised
\* (const errors = [], let score = 0), the two loops run, the strength is
\* determined
RunValidatePassword(text) ==
  LET locals == ValidateFrom(text, <<>>, 0)
  IN  /\ errors' = locals.errors
      /\ score' = locals.score
      /\ strength' = locals.strength

\* ReturnValue with isValid taken from the strength
ReturnValueByStrength ==
  [isValid |-> strength' \in {"good", "strong"}, errors |-> errors',
   strength |-> strength']

\* the object the execution returns, built from its locals
ReturnValue ==
  [isValid |-> Len(errors') = 0, errors |-> errors', strength |-> strength']

\* what a caller holds before its first call
NoValidation == [isValid |-> FALSE, errors |-> <<>>, strength |-> "weak"]

(***************************************************************************)
(* Inputs                                                                  *)
(***************************************************************************)
\* the passwords of testPasswordValidation, of the documented scenarios and
\* of the denylist itself, and "tonight2026x": 12 characters that miss the
\* uppercase and special-character rules and pass every advisory rule
Texts ==
  { <<>>,
    <<49, 50, 51>>,
    <<112, 97, 115, 115, 119, 111, 114, 100>>,
    <<80, 97, 115, 115, 119, 111, 114, 100, 49>>,
    <<80, 97, 115, 115, 119, 111, 114, 100, 49, 33>>,
    <<77, 121, 83, 116, 114, 48, 110, 103, 33, 80, 64, 115, 115, 119, 48,
      114, 100>>,
    <<49, 50, 51, 52, 53, 54, 55, 56>>,
    <<80, 65, 83, 83, 87, 79, 82, 68, 49, 50, 51, 33>>,
    <<49, 49, 49, 49, 49, 49, 49, 49>>,
    <<80, 97, 115, 115, 119, 111, 114, 100, 49, 50, 51, 33>>,
    <<116, 111, 110, 105, 103, 104, 116, 50, 48, 50, 54, 120>> }
  \cup {common[k] : k \in 1..Len(common)}

\* the characters typed one at a time: A, a, 3, !, e-acute, line feed
Alphabet == {65, 97, 51, 33, 233, 10}

\* the texts reachable from Texts by typing at most n characters
RECURSIVE Typed(_)
Typed(n) ==
  IF n = 0 THEN Texts
  ELSE LET shorter == Typed(n - 1)
       IN  shorter \cup {Append(t, c) : t \in shorter, c \in Alphabet}

(***************************************************************************)
(* Specification Spec: the evaluator applied to one text after another     *)
(***************************************************************************)
InitFrame == errors = <<>> /\ score = 0 /\ strength = "weak"

InitEval ==
  /\ evaluated = FALSE
  /\ password = <<>>
  /\ validation = NoValidation
  /\ hasPrev = FALSE
  /\ prevPassword = <<>>
  /\ prevValidation = NoValidation
  /\ appended = 0

\* the strength indicator and the signup form both call validatePassword
Callers == {"indicator", "form"}

InitCallers ==
  /\ called = [c \in Callers |-> FALSE]
  /\ arg = [c \in Callers |-> <<>>]
  /\ ret = [c \in Callers |-> NoValidation]
  /\ callAt = [c \in Callers |-> 0]
  /\ callCount = 0

\* "" as the value of a field or of an error text
Empty == <<>>
\* the indicator returning null: nothing is drawn
NotRendered ==
  [visible |-> FALSE, validation |-> NoValidation, strengthColor |-> "",
   width |-> "", text |-> "", requirements |-> <<>>]
NoDate == [set |-> FALSE, y |-> 0, m |-> 0, d |-> 0]
NoFieldErrors ==
  [username |-> Empty, email |-> Empty, password |-> Empty,
   confirmPassword |-> Empty, dob |-> Empty]

\* the signup screen after its first render: the form is empty and the
\* mount effect has started loading the prompt categories
InitSignup ==
  /\ formData = [username |-> Empty, email |-> Empty, password |-> Empty,
                 confirmPassword |-> Empty, dob |-> NoDate]
  /\ fieldErrors = NoFieldErrors
  /\ loadingPrompts = TRUE
  /\ promptCategories = <<>>
  /\ selectedAnswers = <<>>
  /\ indicator = NotRendered
  /\ mutationStatus = "idle"
  /\ request = [sent |-> FALSE, password |-> Empty]

\* JavaScript's null
Null == "null"
\* the keys the application stores under
StorageKeys == {"authToken", "userData"}

\* no item under 'userData'
NoUserData == [format |-> "none"]
\* what getItem gives for a key that has no item
Missing(key) == IF key = "userData" THEN NoUserData ELSE Null

\* the singleton apiClient after construction
InitApiClient ==
  /\ token = Null
  /\ pendingOps = EmptyBag
  /\ sent = <<>>
  /\ lastTokenCall = "none"

\* the API client over an empty storage
InitClient ==
  /\ InitApiClient
  /\ storage = [k \in StorageKeys |-> Missing(k)]

\* the AuthProvider after its first render: useState(null), useState(true),
\* the mount effect not yet run
InitAuthProvider ==
  /\ user = Null
  /\ isLoading = TRUE
  /\ load = "mounting"
  /\ logout = [pc |-> "idle", token |-> Null]

\* no service method has been called
NoCall == [pc |-> "idle"]
InitService == svc = NoCall

InitPassword == InitFrame /\ InitEval /\ InitCallers /\ InitSignup
\* the profile screen and its delete-account modal after their first render
InitDelete ==
  /\ showDeleteModal = FALSE
  /\ isDeleting = FALSE
  /\ confirmationText = Empty
  /\ error = ""
  /\ onConfirmCalls = <<>>
  /\ alerts = 0
  /\ confirming = 0

InitApp == InitClient /\ InitService /\ InitAuthProvider /\ InitDelete
Init == InitPassword /\ InitApp

\* a call on a new text
EvaluateText ==
  \E text \in Texts :
    /\ evaluated' = TRUE
    /\ password' = text
    /\ RunValidatePassword(text)
    /\ validation' = ReturnValue
    /\ hasPrev' = FALSE
    /\ prevPassword' = <<>>
    /\ prevValidation' = NoValidation
    /\ appended' = 0
    /\ UNCHANGED <<callVars, signupVars, appVars>>

\* a call on the previous text with one more character
EvaluateAppended ==
  \E c \in Alphabet :
    /\ evaluated
    /\ appended < MaxAppend
    /\ password' = Append(password, c)
    /\ RunValidatePassword(password')
    /\ validation' = ReturnValue
    /\ hasPrev' = TRUE
    /\ prevPassword' = password
    /\ prevValidation' = validation
    /\ appended' = appended + 1
    /\ UNCHANGED <<evaluated, callVars, signupVars, appVars>>

Next == EvaluateText \/ EvaluateAppended

Spec == Init /\ [][Next]_vars

(***************************************************************************)
(* Specification SpecCalls: several callers call the evaluator in any      *)
(* order on any of the texts                                               *)
(***************************************************************************)
\* caller c calls validatePassword(text) and keeps the result
Call(c) ==
  \E text \in Texts :
    /\ callCount < MaxCalls
    /\ RunValidatePassword(text)
    /\ called' = [called EXCEPT ![c] = TRUE]
    /\ arg' = [arg EXCEPT ![c] = text]
    /\ ret' = [ret EXCEPT ![c] = ReturnValue]
    /\ callCount' = callCount + 1
    /\ callAt' = [callAt EXCEPT ![c] = callCount']
    /\ UNCHANGED <<evalVars, signupVars, appVars>>

NextCalls == \E c \in Callers : Call(c)

SpecCalls == Init /\ [][NextCalls]_vars

(***************************************************************************)
(* Specification SpecSignup: the signup screen                             *)
(***************************************************************************)
\* the code units String.prototype.trim removes and \S does not match
WHITESPACE ==
  {9, 10, 11, 12, 13, 32, 160, 5760, 8232, 8233, 8239, 8287, 12288, 65279}
    \cup (8192..8202)

RECURSIVE TrimStart(_)
TrimStart(text) ==
  IF text # <<>> /\ Head(text) \in WHITESPACE THEN TrimStart(Tail(text))
  ELSE text

RECURSIVE TrimEnd(_)
TrimEnd(text) ==
  IF text # <<>> /\ text[Len(text)] \in WHITESPACE
  THEN TrimEnd(SubSeq(text, 1, Len(text) - 1))
  ELSE text

\* String.prototype.trim
trim(text) == TrimEnd(TrimStart(text))

\* /\S+@\S+\.\S+/.test(email): a non-space unit, an at sign at a, one or
\* more non-space units, a dot at b, a non-space unit
TestEmail(email) ==
  \E a \in DOMAIN email : \E b \in DOMAIN email :
    /\ email[a] = 64 /\ email[b] = 46
    /\ a >= 2 /\ email[a - 1] \notin WHITESPACE
    /\ b >= a + 2
    /\ \A k \in (a + 1)..(b - 1) : email[k] \notin WHITESPACE
    /\ b + 1 <= Len(email) /\ email[b + 1] \notin WHITESPACE

\* new Date() at the time of the check
Today == [y |-> 2026, m |-> 11, d |-> 1]

\* the age validateForm computes from the date of birth
Age(birthDate) ==
  LET monthDiff == Today.m - birthDate.m
  IN  IF monthDiff < 0 \/ (monthDiff = 0 /\ Today.d < birthDate.d)
      THEN Today.y - birthDate.y - 1
      ELSE Today.y - birthDate.y

\* /^\d{4}-\d{2}-\d{2}$/ on the text the date picker produced
TestDateFormat(date) == date.y \in 0..9999

\* NewErrors without the check of the validation result: only an empty
\* password is an error
NewErrorsNoPolicy(passwordValidation) ==
  [username |->
     IF trim(formData.username) = Empty
     THEN <<"Username is required">> ELSE Empty,
   email |->
     IF trim(formData.email) = Empty THEN <<"Email is required">>
     ELSE IF ~TestEmail(formData.email)
          THEN <<"Please enter a valid email">> ELSE Empty,
   password |->
     IF formData.password = Empty THEN <<"Password is required">> ELSE Empty,
   confirmPassword |->
     IF formData.confirmPassword = Empty
     THEN <<"Please confirm your password">>
     ELSE IF formData.password # formData.confirmPassword
          THEN <<"Passwords do not match">> ELSE Empty,
   dob |->
     IF ~formData.dob.set THEN <<"Date of birth is required">>
     ELSE IF ~TestDateFormat(formData.dob)
          THEN <<"Please enter date in YYYY-MM-DD format">>
          ELSE IF Age(formData.dob) < 18
               THEN <<"You must be at least 18 years old">> ELSE Empty]

\* the error texts validateForm collects, given the result of its
\* validatePassword call (used only when the password is not empty).  An
\* error text is kept as the list of messages it is made of.
NewErrors(passwordValidation) ==
  [username |->
     IF trim(formData.username) = Empty
     THEN <<"Username is required">> ELSE Empty,
   email |->
     IF trim(formData.email) = Empty THEN <<"Email is required">>
     ELSE IF ~TestEmail(formData.email)
          THEN <<"Please enter a valid email">> ELSE Empty,
   password |->
     IF formData.password = Empty THEN <<"Password is required">>
     ELSE IF ~passwordValidation.isValid
          THEN passwordValidation.errors ELSE Empty,
   confirmPassword |->
     IF formData.confirmPassword = Empty
     THEN <<"Please confirm your password">>
     ELSE IF formData.password # formData.confirmPassword
          THEN <<"Passwords do not match">> ELSE Empty,
   dob |->
     IF ~formData.dob.set THEN <<"Date of birth is required">>
     ELSE IF ~TestDateFormat(formData.dob)
          THEN <<"Please enter date in YYYY-MM-DD format">>
          ELSE IF Age(formData.dob) < 18
               THEN <<"You must be at least 18 years old">> ELSE Empty]

\* validateForm: what it returns and whether it reached setErrors (the
\* prompt check returns before it)
validateForm(passwordValidation) ==
  LET newErrors == NewErrors(passwordValidation)
  IN  IF Len(promptCategories) > 0 /\ Len(selectedAnswers) < 3
      THEN [ok |-> FALSE, setErrors |-> FALSE, newErrors |-> newErrors]
      ELSE [ok |-> \A f \in DOMAIN newErrors : newErrors[f] = Empty,
            setErrors |-> TRUE, newErrors |-> newErrors]

\* the inputs of the form
UsernameInputs == {<<32>>, <<98>>}
\* "A@b", "A@b.c"
EmailInputs == {<<65, 64, 98>>, <<65, 64, 98, 46, 99>>}
\* "Password1", "Password1!"
ConfirmInputs ==
  {<<80, 97, 115, 115, 119, 111, 114, 100, 49>>,
   <<80, 97, 115, 115, 119, 111, 114, 100, 49, 33>>}
\* the field cleared, "123", "password", "Password1", "Password1!"
PasswordInputs ==
  {Empty, <<49, 50, 51>>, <<112, 97, 115, 115, 119, 111, 114, 100>>}
    \cup ConfirmInputs
\* a date of birth 26 years back, and one 18 years back less a day
DateInputs ==
  {[set |-> TRUE, y |-> 2000, m |-> 5, d |-> 20],
   [set |-> TRUE, y |-> 2008, m |-> 11, d |-> 2]}
\* what GET /prompts/categories can deliver: nothing, or categories
CategoryLists == {<<>>, <<"icebreakers", "bar-nightlife">>}
\* the questions that can be answered, and the answers typed: "x" and " "
Questions ==
  {<<"icebreakers", "random-fact">>, <<"icebreakers", "karaoke-song">>,
   <<"bar-nightlife", "drink-order">>}
AnswerInputs == {<<120>>, <<32>>}

\* the showRequirements prop the signup screen passes to the indicator
showRequirements == FALSE

\* what the indicator draws for a validation: the colour of the bar and of
\* the label, the width of the bar, the label, and the errors listed
Rendered(v) ==
  [visible |-> TRUE, validation |-> v,
   strengthColor |-> getPasswordStrengthColor(v.strength),
   width |-> IF v.isValid THEN "100%" ELSE "60%",
   text |-> getPasswordStrengthText(v.strength),
   requirements |-> IF showRequirements /\ Len(v.errors) > 0
                    THEN v.errors ELSE <<>>]

\* RenderIndicator without the return for an empty password
RenderIndicatorNoGuard(text) ==
  /\ RunValidatePassword(text)
  /\ indicator' = Rendered(ReturnValue)

\* the strength indicator rendered for the given password
RenderIndicator(text) ==
  IF text = Empty
  THEN /\ indicator' = NotRendered
       /\ UNCHANGED frameVars
  ELSE /\ RunValidatePassword(text)
       /\ indicator' = Rendered(ReturnValue)

\* handleInputChange(field, value) from one of the four text inputs; the
\* email input lowercases its text, and a new password is rendered by the
\* strength indicator
handleInputChange ==
  \E field \in {"username", "email", "password", "confirmPassword"} :
    \E text \in (CASE field = "username" -> UsernameInputs
                   [] field = "email" -> EmailInputs
                   [] field = "password" -> PasswordInputs
                   [] OTHER -> ConfirmInputs) :
      LET value == IF field = "email" THEN toLowerCase(text) ELSE text
      IN  /\ formData' = [formData EXCEPT ![field] = value]
          /\ fieldErrors' = [fieldErrors EXCEPT ![field] = Empty]
          /\ IF field = "password"
             THEN RenderIndicator(value)
             ELSE UNCHANGED <<indicator, frameVars>>
          /\ UNCHANGED <<loadingPrompts, promptCategories, selectedAnswers,
                         mutationStatus, request, evalVars, callVars, appVars>>

\* handleDateChange with a selected date
handleDateChange ==
  \E selectedDate \in DateInputs :
    /\ formData' = [formData EXCEPT !.dob = selectedDate]
    /\ fieldErrors' = [fieldErrors EXCEPT !.dob = Empty]
    /\ UNCHANGED <<loadingPrompts, promptCategories, selectedAnswers,
                   indicator, mutationStatus, request, frameVars, evalVars,
                   callVars, appVars>>

\* the mount effect's loadPromptData finishes
loadPromptData ==
  \E categories \in CategoryLists :
    /\ loadingPrompts
    /\ promptCategories' = categories
    /\ loadingPrompts' = FALSE
    /\ UNCHANGED <<formData, fieldErrors, selectedAnswers, indicator,
                   mutationStatus, request, frameVars, evalVars, callVars, appVars>>

\* selectedAnswers without the answer to the given question
WithoutAnswer(answers, categoryId, questionId) ==
  SelectSeq(answers,
            LAMBDA a : ~(a.categoryId = categoryId /\ a.questionId = questionId))

\* AnswerChange keeping every answer that is not the empty string
AnswerChangeNoTrim(prev, categoryId, questionId, answer) ==
  LET filtered == WithoutAnswer(prev, categoryId, questionId)
  IN  IF answer # Empty
      THEN Append(filtered, [categoryId |-> categoryId,
                             questionId |-> questionId, answer |-> answer])
      ELSE filtered

\* the updater handleAnswerChange(categoryId, questionId, answer) passes to
\* setSelectedAnswers
AnswerChange(prev, categoryId, questionId, answer) ==
  LET filtered == WithoutAnswer(prev, categoryId, questionId)
  IN  IF trim(answer) # Empty
      THEN Append(filtered, [categoryId |-> categoryId,
                             questionId |-> questionId, answer |-> answer])
      ELSE filtered

\* handleAnswerChange(categoryId, questionId, answer)
handleAnswerChange ==
  \E q \in Questions : \E answer \in AnswerInputs :
    /\ selectedAnswers' = AnswerChange(selectedAnswers, q[1], q[2], answer)
    /\ UNCHANGED <<formData, fieldErrors, loadingPrompts,
                   promptCategories, indicator, mutationStatus, request,
                   frameVars, evalVars, callVars, appVars>>

\* removeAnswer(categoryId, questionId)
removeAnswer ==
  \E q \in Questions :
    /\ selectedAnswers' = WithoutAnswer(selectedAnswers, q[1], q[2])
    /\ UNCHANGED <<formData, fieldErrors, loadingPrompts, promptCategories,
                   indicator, mutationStatus, request, frameVars, evalVars,
                   callVars, appVars>>

\* handleSignup from the Create Account button, which is disabled while the
\* mutation is pending: validateForm, and signupMutation.mutate with the
\* form data when it returned true.  mutate runs signup -> completeProfile
\* -> POST /users with the password of the form data unchanged.
handleSignup ==
  /\ mutationStatus # "pending"
  /\ IF formData.password # Empty
     THEN RunValidatePassword(formData.password)
     ELSE UNCHANGED frameVars
  /\ LET form == validateForm(ReturnValue)
     IN  /\ fieldErrors' = IF form.setErrors THEN form.newErrors ELSE fieldErrors
         /\ IF form.ok
            THEN /\ mutationStatus' = "pending"
                 /\ request' = [sent |-> TRUE, password |-> formData.password]
            ELSE UNCHANGED <<mutationStatus, request>>
  /\ UNCHANGED <<formData, loadingPrompts, promptCategories, selectedAnswers,
                 indicator, evalVars, callVars, appVars>>

\* the POST /users settles: onSuccess or onError
signupSettles ==
  /\ mutationStatus = "pending"
  /\ mutationStatus' \in {"success", "error"}
  /\ UNCHANGED <<formData, fieldErrors, loadingPrompts, promptCategories,
                 selectedAnswers, indicator, request, frameVars, evalVars,
                 callVars, appVars>>

NextSignup ==
  \/ handleInputChange
  \/ handleDateChange
  \/ loadPromptData
  \/ handleAnswerChange
  \/ removeAnswer
  \/ handleSignup
  \/ signupSettles

SpecSignup == Init /\ [][NextSignup]_vars

(***************************************************************************)
(* The policy as documented, stated on the text alone                      *)
(***************************************************************************)
AsciiUppercase == 65..90
AsciiLowercase == 97..122
DecimalDigits == 48..57
\* ! @ # $ % ^ & * ( ) _ + - = [ ] { } ; ' : " \ | , . < > / ?
SpecialCharacterSet ==
  {33, 64, 35, 36, 37, 94, 38, 42, 40, 41, 95, 43, 45, 61, 91, 93, 123, 125,
   59, 39, 58, 34, 92, 124, 44, 46, 60, 62, 47, 63}

Contains(text, chars) == \E i \in DOMAIN text : text[i] \in chars

\* documented required rule i holds of the text
MeetsRequired(i, text) ==
  CASE i = 1 -> Len(text) >= 8
    [] i = 2 -> Contains(text, AsciiUppercase)
    [] i = 3 -> Contains(text, AsciiLowercase)
    [] i = 4 -> Contains(text, DecimalDigits)
    [] i = 5 -> Contains(text, SpecialCharacterSet)

Strengths == {"weak", "fair", "good", "strong"}
StrengthRank(s) ==
  CASE s = "weak" -> 0 [] s = "fair" -> 1 [] s = "good" -> 2 [] s = "strong" -> 3

RequiredMessages ==
  {PASSWORD_REQUIREMENTS[i].message : i \in DOMAIN PASSWORD_REQUIREMENTS}
AdditionalMessages ==
  {ADDITIONAL_REQUIREMENTS[i].message : i \in DOMAIN ADDITIONAL_REQUIREMENTS}

\* C1: isValid is true exactly when the password has at least 8 characters
\* and holds an ASCII uppercase letter, an ASCII lowercase letter, a decimal
\* digit and a character of the special-character set.
C1_ValidIffPolicy ==
  evaluated =>
    (validation.isValid <=> \A i \in 1..5 : MeetsRequired(i, password))

\* the last typed character made an invalid password valid
C1_Witness ==
  /\ evaluated /\ hasPrev
  /\ ~prevValidation.isValid
  /\ validation.isValid

\* C2: errors is exactly the messages of the failing required rules, each
\* once, in the order of rules 1 to 5, and holds no advisory message.
C2_ErrorsInOrder ==
  evaluated =>
    /\ validation.errors =
         LET failing == SelectSeq(<<1, 2, 3, 4, 5>>,
                                  LAMBDA i : ~MeetsRequired(i, password))
         IN  [k \in DOMAIN failing |-> PASSWORD_REQUIREMENTS[failing[k]].message]
    /\ \A k \in DOMAIN validation.errors :
         validation.errors[k] \notin AdditionalMessages

\* several required rules fail, and so does an advisory rule
C2_Witness ==
  /\ evaluated
  /\ Len(validation.errors) >= 2
  /\ Len(validation.errors) < 5
  /\ ~AdditionalTest(2, password)
  /\ ~AdditionalTest(4, password)

\* the number of required and of advisory rules whose test passes
PassingRequired(text) ==
  Cardinality({i \in DOMAIN PASSWORD_REQUIREMENTS : RequiredTest(i, text)})
PassingAdditional(text) ==
  Cardinality({i \in DOMAIN ADDITIONAL_REQUIREMENTS : AdditionalTest(i, text)})
\* 1.0 per passing required rule and 0.5 per passing advisory rule, in half
\* points; 7.0 is 14 half points
HalfPoints(text) == 2 * PassingRequired(text) + PassingAdditional(text)
SevenPoints == 14
BandWeak(h) == 10 * h < 4 * SevenPoints
BandFair(h) == 4 * SevenPoints <= 10 * h /\ 10 * h < 6 * SevenPoints
BandGood(h) == 6 * SevenPoints <= 10 * h /\ 10 * h < 8 * SevenPoints
BandStrong(h) == 8 * SevenPoints <= 10 * h

\* C3: strength is the band of (1.0 per passing required rule + 0.5 per
\* passing advisory rule) / 7.0, with weak below 0.4, fair from 0.4 to below
\* 0.6, good from 0.6 to below 0.8 and strong from 0.8; the ratio falls in
\* exactly one band.
C3_StrengthBand ==
  evaluated =>
    LET h == HalfPoints(password)
    IN  /\ (validation.strength = "weak") <=> BandWeak(h)
        /\ (validation.strength = "fair") <=> BandFair(h)
        /\ (validation.strength = "good") <=> BandGood(h)
        /\ (validation.strength = "strong") <=> BandStrong(h)
        /\ Cardinality({b \in Strengths :
             CASE b = "weak" -> BandWeak(h) [] b = "fair" -> BandFair(h)
               [] b = "good" -> BandGood(h) [] b = "strong" -> BandStrong(h)}) = 1

\* the last typed character lifted the password from weak to fair
C3_Witness ==
  /\ evaluated /\ hasPrev
  /\ prevValidation.strength = "weak"
  /\ validation.strength = "fair"

\* C4 as written: some password is valid and classified fair.
C4_ValidAndFairExists ==
  \E text \in Typed(MaxAppend) :
    LET r == validatePassword(text)
    IN  r.isValid /\ r.strength = "fair"

\* C4 as amended: a valid password is classified good or strong, never fair
\* or weak (good is reached by failing the three advisory rules a valid
\* password can fail).
C4_ValidIsGoodOrStrong ==
  (evaluated /\ validation.isValid) => validation.strength \in {"good", "strong"}

\* a valid password classified good
C4_Witness ==
  /\ evaluated
  /\ validation.isValid
  /\ validation.strength = "good"

\* C6: for every input, the empty string and non-ASCII strings included, the
\* call returns a result with a boolean isValid, an errors list of required
\* messages and one of the four strengths.
C6_ResultWellFormed ==
  evaluated =>
    /\ DOMAIN validation = {"isValid", "errors", "strength"}
    /\ validation.isValid \in BOOLEAN
    /\ validation.strength \in Strengths
    /\ Len(validation.errors) <= Len(PASSWORD_REQUIREMENTS)
    /\ \A k \in DOMAIN validation.errors : validation.errors[k] \in RequiredMessages
    /\ score \in 0..maxScore

\* a non-empty password without any ASCII character has been evaluated
C6_Witness ==
  /\ evaluated
  /\ Len(password) >= 2
  /\ \A i \in DOMAIN password : password[i] > 127

\* C9: errors is empty if and only if isValid is true.
C9_ErrorsEmptyIffValid ==
  evaluated => ((Len(validation.errors) = 0) <=> validation.isValid)

\* the last typed character removed one error of two
C9_Witness ==
  /\ evaluated /\ hasPrev
  /\ Len(prevValidation.errors) = 2
  /\ Len(validation.errors) = 1
  /\ ~validation.isValid

\* between the call on s and the call on s + c the no-triple-repeat rule
\* started to fail, no other rule changed its outcome, and the strength fell
DropsByRepeat ==
  /\ StrengthRank(validation.strength) < StrengthRank(prevValidation.strength)
  /\ AdditionalTest(2, prevPassword) /\ ~AdditionalTest(2, password)
  /\ \A i \in DOMAIN PASSWORD_REQUIREMENTS :
       RequiredTest(i, prevPassword) <=> RequiredTest(i, password)
  /\ \A i \in {1, 3, 4} :
       AdditionalTest(i, prevPassword) <=> AdditionalTest(i, password)

\* "passwordaa"
PasswordAA == <<112, 97, 115, 115, 119, 111, 114, 100, 97, 97>>

\* C10: there are a password s and a character c such that s + c has a
\* strictly lower strength than s because s + c newly fails the
\* no-three-identical-consecutive-characters rule: s = "passwordaa" and
\* c = "a" are such a pair.
C10_AppendCanLowerStrength ==
  (/\ evaluated /\ hasPrev
   /\ prevPassword = PasswordAA
   /\ password = Append(PasswordAA, 97))
  => DropsByRepeat

\* the evaluator has been called on "passwordaa" and then on "passwordaaa",
\* and the strength fell from fair to weak
C10_Witness ==
  /\ evaluated /\ hasPrev
  /\ prevPassword = PasswordAA
  /\ password = Append(PasswordAA, 97)
  /\ prevValidation.strength = "fair"
  /\ validation.strength = "weak"

\* C7: two calls with the same password return equal isValid, equal errors
\* and equal strength, whichever caller makes them and whatever calls are
\* made in between.
C7_SameInputSameResult ==
  \A a \in Callers : \A b \in Callers :
    (called[a] /\ called[b] /\ arg[a] = arg[b]) =>
      /\ ret[a].isValid = ret[b].isValid
      /\ ret[a].errors = ret[b].errors
      /\ ret[a].strength = ret[b].strength

\* two callers hold results for the same password, and a call was made
\* between the two calls that produced them
C7_Witness ==
  \E a \in Callers : \E b \in Callers :
    /\ a # b /\ called[a] /\ called[b]
    /\ arg[a] = arg[b]
    /\ Len(ret[a].errors) >= 1
    /\ callAt[b] >= callAt[a] + 2

\* C8: two passwords with the same outcome on each of the five required
\* rules get the same isValid and the same errors, whatever their outcomes
\* on the four advisory rules.
C8_ValidityIgnoresAdvisory ==
  \A a \in Callers : \A b \in Callers :
    (/\ called[a] /\ called[b]
     /\ \A i \in DOMAIN PASSWORD_REQUIREMENTS :
          RequiredTest(i, arg[a]) <=> RequiredTest(i, arg[b]))
    => /\ ret[a].isValid = ret[b].isValid
       /\ ret[a].errors = ret[b].errors

\* two evaluated passwords agree on every required rule and differ on two
\* advisory rules
C8_Witness ==
  \E a \in Callers : \E b \in Callers :
    /\ called[a] /\ called[b]
    /\ \A i \in DOMAIN PASSWORD_REQUIREMENTS :
         RequiredTest(i, arg[a]) <=> RequiredTest(i, arg[b])
    /\ Cardinality({i \in DOMAIN ADDITIONAL_REQUIREMENTS :
                      AdditionalTest(i, arg[a]) # AdditionalTest(i, arg[b])}) >= 2
    /\ Len(ret[a].errors) >= 1

\* C5: the signup flow never submits an account-creation request with a
\* password for which validatePassword returns isValid = false.
C5_NoInvalidPasswordSubmitted ==
  request.sent => validatePassword(request.password).isValid

\* handleSignup has refused a form whose only fault is its password: the
\* password error is set, every other field is in order, three prompts are
\* answered, and nothing has been sent
C5_Witness ==
  /\ ~request.sent
  /\ formData.password # Empty
  /\ fieldErrors.password # Empty
  /\ \A f \in {"username", "email", "confirmPassword", "dob"} :
       fieldErrors[f] = Empty
  /\ trim(formData.username) # Empty
  /\ TestEmail(formData.email)
  /\ formData.confirmPassword = formData.password
  /\ formData.dob.set /\ Age(formData.dob) >= 18
  /\ Len(promptCategories) > 0
  /\ Len(selectedAnswers) >= 3

(***************************************************************************)
(* The documented scenarios                                                *)
(***************************************************************************)
\* "password"
TextPassword == <<112, 97, 115, 115, 119, 111, 114, 100>>
\* "Password1!"
TextPassword1Bang == <<80, 97, 115, 115, 119, 111, 114, 100, 49, 33>>
\* "11111111"
TextEightOnes == <<49, 49, 49, 49, 49, 49, 49, 49>>
\* "Password123!"
TextPassword123Bang == <<80, 97, 115, 115, 119, 111, 114, 100, 49, 50, 51, 33>>

\* the message of required rule i
Msg(i) == PASSWORD_REQUIREMENTS[i].message
\* the messages in a list of errors
MessagesIn(list) == {list[k] : k \in DOMAIN list}

\* C11 as written: "password" scores 2.5 of 7.0 (5 half points), of the
\* advisory rules only not-all-digits passes, and the strength is weak.
C11_PasswordScoresTwoAndAHalf ==
  (evaluated /\ password = TextPassword) =>
    /\ score = 5
    /\ ~AdditionalTest(2, password)
    /\ validation.strength = "weak"

\* C11 as amended: "password" scores 3.0 of 7.0 (6 half points): length and
\* lowercase pass, and of the advisory rules both no-triple-repeat and
\* not-all-digits pass; the strength is fair.
C11_PasswordScoresThree ==
  (evaluated /\ password = TextPassword) =>
    /\ validation.errors = <<Msg(2), Msg(4), Msg(5)>>
    /\ ~AdditionalTest(1, password) /\ AdditionalTest(2, password)
    /\ AdditionalTest(3, password) /\ ~AdditionalTest(4, password)
    /\ score = 6
    /\ validation.strength = "fair"

\* the evaluator has been called on "password"
C11_Witness ==
  /\ evaluated /\ ~hasPrev
  /\ password = TextPassword
  /\ validation.strength = "fair"

\* three equal code units in a row, whatever the unit
HasRunOfThree(text) ==
  \E i \in 1..(Len(text) - 2) : text[i + 1] = text[i] /\ text[i + 2] = text[i]

\* C12: advisory rule 7 passes exactly when the password has no run of three
\* or more identical consecutive characters, for every kind of character.
C12_RepeatRuleIffNoRun ==
  evaluated => (AdditionalTest(2, password) <=> ~HasRunOfThree(password))

\* C13: a non-ASCII character satisfies none of the uppercase, lowercase,
\* digit and special-character rules, and counts toward the length the two
\* length rules use.
C13_NonAsciiCountsOnlyForLength ==
  (evaluated /\ hasPrev /\ password[Len(password)] > 127) =>
    /\ \A i \in 2..5 :
         (Msg(i) \in MessagesIn(validation.errors))
           <=> (Msg(i) \in MessagesIn(prevValidation.errors))
    /\ (Msg(1) \notin MessagesIn(validation.errors))
         <=> (Len(prevPassword) + 1 >= 8)
    /\ AdditionalTest(1, password) <=> (Len(prevPassword) + 1 >= 12)
    /\ (\A k \in DOMAIN password : password[k] > 127) =>
         \A i \in 2..5 : Msg(i) \in MessagesIn(validation.errors)

\* a non-ASCII character brought the password to 8 characters: the length
\* error is gone, the other errors stayed
C13_Witness ==
  /\ evaluated /\ hasPrev
  /\ password[Len(password)] > 127
  /\ Len(password) = 8
  /\ Msg(1) \in MessagesIn(prevValidation.errors)
  /\ Msg(1) \notin MessagesIn(validation.errors)
  /\ Len(validation.errors) >= 1

\* ASCII case folding, and a denylist entry found in the text at any position
\* in any letter case
FoldAscii(u) == IF u \in 65..90 THEN u + 32 ELSE u
ContainsDenylisted(text) ==
  \E k \in DOMAIN common : \E off \in 0..(Len(text) - Len(common[k])) :
    \A j \in DOMAIN common[k] : FoldAscii(text[off + j]) = common[k][j]

C15_EmptyPassword ==
  (evaluated /\ password = <<>>) =>
    /\ ~validation.isValid
    /\ validation.errors = <<Msg(1), Msg(2), Msg(3), Msg(4), Msg(5)>>
    /\ validation.strength = "weak"

\* the evaluator has been called on the empty string
C15_Witness ==
  /\ evaluated
  /\ password = <<>>
  /\ Len(validation.errors) = 5

\* C16: "Password1!" passes the five required rules, fails the length >= 12
\* and denylist advisory rules, passes the other two, scores 6.0 of 7.0 (12
\* half points) and is strong.
C16_Password1Bang ==
  (evaluated /\ password = TextPassword1Bang) =>
    /\ validation.isValid /\ validation.errors = <<>>
    /\ ~AdditionalTest(1, password) /\ AdditionalTest(2, password)
    /\ AdditionalTest(3, password) /\ ~AdditionalTest(4, password)
    /\ score = 12
    /\ validation.strength = "strong"

\* the evaluator has been called on "Password1!"
C16_Witness ==
  /\ evaluated
  /\ password = TextPassword1Bang
  /\ validation.strength = "strong"

\* C17: "11111111" fails exactly required rules 2, 3 and 5, fails the
\* length >= 12, no-triple-repeat and not-all-digits advisory rules, passes
\* only the denylist rule, and is weak.
C17_EightOnes ==
  (evaluated /\ password = TextEightOnes) =>
    /\ ~validation.isValid
    /\ validation.errors = <<Msg(2), Msg(3), Msg(5)>>
    /\ ~AdditionalTest(1, password) /\ ~AdditionalTest(2, password)
    /\ ~AdditionalTest(3, password) /\ AdditionalTest(4, password)
    /\ score = 5
    /\ validation.strength = "weak"

\* the evaluator has been called on "11111111"
C17_Witness ==
  /\ evaluated
  /\ password = TextEightOnes
  /\ Len(validation.errors) = 3

(***************************************************************************)
(* The strength indicator of the signup form                               *)
(***************************************************************************)
\* C18 as written: every change of the password field leaves the indicator
\* holding the evaluator's result for the new value, listing each entry of
\* errors beneath the field, and showing the colour and label looked up
\* from the strength.
C18_IndicatorListsErrors ==
  [][formData'.password # formData.password =>
       LET v == validatePassword(formData'.password)
       IN  /\ indicator'.visible
           /\ indicator'.validation = v
           /\ indicator'.requirements = v.errors
           /\ indicator'.strengthColor = getPasswordStrengthColor(v.strength)
           /\ indicator'.text = getPasswordStrengthText(v.strength)]_vars

\* C18 as amended: while the password field is empty the indicator draws
\* nothing and does not call the evaluator; otherwise it holds the
\* evaluator's result for the current value, colours the bar and the label
\* by the colour lookup of the strength, labels it by the label lookup,
\* makes the bar 100% wide for a valid password and 60% otherwise, and lists
\* no entry of errors (the signup form passes showRequirements = false).
C18_IndicatorShowsStrengthOnly ==
  LET v == validatePassword(formData.password)
  IN  IF formData.password = Empty
      THEN indicator = NotRendered
      ELSE /\ indicator.visible
           /\ indicator.validation = v
           /\ indicator.strengthColor = getPasswordStrengthColor(v.strength)
           /\ indicator.text = getPasswordStrengthText(v.strength)
           /\ indicator.width = (IF v.isValid THEN "100%" ELSE "60%")
           /\ indicator.requirements = <<>>

\* an invalid password has been typed: the indicator is drawn, holds errors,
\* and lists none of them
C18_Witness ==
  /\ formData.password # Empty
  /\ indicator.visible
  /\ Len(indicator.validation.errors) >= 1
  /\ indicator.requirements = <<>>
  /\ indicator.width = "60%"

\* the documented label of each strength
DisplayLabel ==
  [weak |-> "Weak", fair |-> "Fair", good |-> "Good", strong |-> "Strong"]

\* C19: getPasswordStrengthText maps weak, fair, good, strong to 'Weak',
\* 'Fair', 'Good', 'Strong'; no two strengths share a label, and the label
\* the indicator shows for a strength returned by validatePassword is never
\* the empty default.
C19_LabelPerStrength ==
  /\ \A a \in Strengths : getPasswordStrengthText(a) = DisplayLabel[a]
  /\ \A a, b \in Strengths :
       getPasswordStrengthText(a) = getPasswordStrengthText(b) => a = b
  /\ indicator.visible =>
       /\ indicator.text = DisplayLabel[indicator.validation.strength]
       /\ indicator.text # ""

\* the indicator shows 'Strong' for a strong password
C19_Witness ==
  /\ indicator.visible
  /\ indicator.validation.strength = "strong"
  /\ indicator.text = "Strong"

\* C20: getPasswordStrengthColor gives the four strengths four pairwise
\* different tokens, and the colour the indicator shows for a strength
\* returned by validatePassword is never the default token.
C20_ColourPerStrength ==
  /\ \A a, b \in Strengths :
       getPasswordStrengthColor(a) = getPasswordStrengthColor(b) => a = b
  /\ \A a \in Strengths : getPasswordStrengthColor(a) # "#cccccc"
  /\ indicator.visible =>
       /\ indicator.strengthColor
            = getPasswordStrengthColor(indicator.validation.strength)
       /\ indicator.strengthColor # "#cccccc"
       /\ indicator.strengthColor # ""

\* the indicator has shown a good password in the colour of good
C20_Witness ==
  /\ indicator.visible
  /\ indicator.validation.strength = "good"
  /\ indicator.strengthColor = "#44aa44"

(***************************************************************************)
(* Relations between results                                               *)
(***************************************************************************)
\* the text before the last n typed characters
Before(text, n) == SubSeq(text, 1, Len(text) - n)

AnswersTo(answers, q) ==
  {k \in DOMAIN answers :
     answers[k].categoryId = q[1] /\ answers[k].questionId = q[2]}

\* only blanks: nothing but white space, or nothing at all
OnlyBlanks(text) == \A k \in DOMAIN text : text[k] \in WHITESPACE

\* C30: selectedAnswers holds at most one answer per (categoryId,
\* questionId) pair and no answer that is empty or whitespace-only, and
\* handleAnswerChange with a whitespace-only answer for a pair leaves no
\* answer for that pair, whatever answers are held when it is called.
C30_AnswersWellFormed ==
  /\ \A q \in Questions : Cardinality(AnswersTo(selectedAnswers, q)) <= 1
  /\ \A k \in DOMAIN selectedAnswers : ~OnlyBlanks(selectedAnswers[k].answer)
  /\ \A q \in Questions : \A answer \in AnswerInputs :
       OnlyBlanks(answer) =>
         LET after == AnswerChange(selectedAnswers, q[1], q[2], answer)
         IN  /\ AnswersTo(after, q) = {}
             /\ after = WithoutAnswer(selectedAnswers, q[1], q[2])

\* all three questions are answered, one answer each, after an answer was
\* replaced: the answer to the first question in the list is the last one
C30_Witness ==
  /\ Len(selectedAnswers) = 3
  /\ \A q \in Questions : Cardinality(AnswersTo(selectedAnswers, q)) = 1
  /\ selectedAnswers[3].categoryId = "icebreakers"
  /\ selectedAnswers[3].questionId = "random-fact"
  /\ selectedAnswers[1].questionId = "drink-order"

(***************************************************************************)
(* The API client: token, storage and fetch                                *)
(***************************************************************************)
\* the fetch calls one run makes at most
MaxRequests == 3

\* the token strings a login response carries, and the token login falls
\* back to when the response carries none
ResponseTokens == {"t1", "t2"}
TEMP_TOKEN == "temp-token"

\* asynchronous storage operations settle in any order: the pending ones
\* are a bag
StartOp(ops, op) == ops (+) SetToBag({op})
WithoutOp(ops, op) == ops (-) SetToBag({op})

\* platformStorage.setItem / removeItem taking effect
StorageAfter(op) ==
  IF op.op = "setItem" THEN [storage EXCEPT ![op.key] = op.value]
  ELSE [storage EXCEPT ![op.key] = Missing(op.key)]

\* apiClient.setToken(t): the field at once, saveToken without awaiting it
setToken(t) ==
  /\ token' = t
  /\ lastTokenCall' = "setToken"
  /\ pendingOps' = StartOp(pendingOps,
                           [op |-> "setItem", key |-> "authToken",
                            value |-> t, then |-> "saveToken"])

\* apiClient.clearToken(): the field at once, removeToken without awaiting
clearToken ==
  /\ token' = Null
  /\ lastTokenCall' = "clearToken"
  /\ pendingOps' = StartOp(pendingOps,
                           [op |-> "removeItem", key |-> "authToken",
                            value |-> Null, then |-> "removeToken"])

\* the operations pending once operation i has settled: logout starts its
\* second removeItem when the first has settled
OpsAfter(op) ==
  IF op.then = "logout:userData"
  THEN StartOp(WithoutOp(pendingOps, op),
               [op |-> "removeItem", key |-> "authToken", value |-> Null,
                then |-> "logout:authToken"])
  ELSE WithoutOp(pendingOps, op)

\* what runs after the await in saveToken and in removeToken
TokenAfter(op) ==
  CASE op.then = "saveToken" -> op.value
    [] op.then = "removeToken" -> Null
    [] OTHER -> token

\* getHeaders, after the loadToken that every verb runs when the field is
\* empty: the Authorization header of the request, or Null for none
LoadedToken == IF token = Null THEN storage["authToken"] ELSE token

\* new ApiError(message, status)
ApiError(message, status) ==
  [class |-> "ApiError", message |-> message, status |-> status]
\* an error of another class
OtherError(class, message) == [class |-> class, message |-> message]
NoError == [class |-> "none"]

\* what fetch can settle with: a rejection, or a response with its ok flag,
\* status and body
HttpErrorStatuses == {401, 404}
Bodies ==
  {[kind |-> "notJson"], [kind |-> "null"], [kind |-> "object"]}
    \cup {[kind |-> "authData", token |-> t] : t \in ResponseTokens \cup {Null}}
FetchResults ==
  {[kind |-> "rejected"]}
    \cup {[kind |-> "response", ok |-> FALSE, status |-> st, body |-> b] :
            st \in HttpErrorStatuses, b \in {[kind |-> "notJson"],
                                             [kind |-> "object"]}}
    \cup {[kind |-> "response", ok |-> TRUE, status |-> 200, body |-> b] :
            b \in Bodies}

\* handleResponse: the ApiError it throws, or NoError when it returns data
handleResponse(response) ==
  IF ~response.ok
  THEN ApiError(IF response.body.kind = "notJson"
                THEN "HTTP status" ELSE "errorData.message",
                response.status)
  ELSE IF response.body.kind = "notJson"
       THEN ApiError("Invalid JSON response", 500)
       ELSE NoError

\* what awaiting an apiClient verb throws for a fetch result
VerbThrows(result) ==
  IF result.kind = "rejected"
  THEN OtherError("TypeError", "Network request failed")
  ELSE handleResponse(result)

(***************************************************************************)
(* The service methods                                                     *)
(***************************************************************************)
\* "undefined", "12345" and " " as ids
Undefined == <<117, 110, 100, 101, 102, 105, 110, 101, 100>>
ValidId == <<49, 50, 51, 52, 53>>
BlankId == <<32>>

ServiceMethods ==
  {"login", "getUserById", "deleteUser", "respondToDateRequest"}

\* the arguments a method is called with: an id, and for
\* respondToDateRequest the accept field of the response
ServiceArgs(method) ==
  CASE method = "login" -> {[id |-> Empty, accept |-> Null]}
    [] method = "respondToDateRequest" ->
         {[id |-> i, accept |-> a] :
            i \in {Empty, BlankId, ValidId}, a \in {"true", Null}}
    [] OTHER ->
         {[id |-> i, accept |-> Null] : i \in {Empty, Undefined, ValidId}}

\* the method's check of its arguments without the test for 'undefined'
RejectionEmptyOnly(method, a) ==
  CASE method = "getUserById" ->
         IF a.id = Empty
         THEN ApiError("User ID is required", 400) ELSE NoError
    [] method = "deleteUser" ->
         IF a.id = Empty
         THEN ApiError("User ID is required for account deletion", 400)
         ELSE NoError
    [] method = "respondToDateRequest" ->
         IF a.id = Empty \/ trim(a.id) = Empty
         THEN ApiError("Request ID is required", 400)
         ELSE IF a.accept = Null
              THEN ApiError("Accept field is required", 400) ELSE NoError
    [] OTHER -> NoError

\* the method's check of its arguments: the ApiError it throws, or NoError
Rejection(method, a) ==
  CASE method = "getUserById" ->
         IF a.id = Empty \/ a.id = Undefined
         THEN ApiError("User ID is required", 400) ELSE NoError
    [] method = "deleteUser" ->
         IF a.id = Empty \/ a.id = Undefined
         THEN ApiError("User ID is required for account deletion", 400)
         ELSE NoError
    [] method = "respondToDateRequest" ->
         IF a.id = Empty \/ trim(a.id) = Empty
         THEN ApiError("Request ID is required", 400)
         ELSE IF a.accept = Null
              THEN ApiError("Accept field is required", 400) ELSE NoError
    [] OTHER -> NoError

\* the request the method makes
RequestOf(method, a) ==
  CASE method = "login" -> [method |-> "POST", endpoint |-> <<"/auth/login">>]
    [] method = "getUserById" ->
         [method |-> "GET", endpoint |-> <<"/users/", a.id>>]
    [] method = "deleteUser" ->
         [method |-> "DELETE", endpoint |-> <<"/users/", a.id>>]
    [] method = "respondToDateRequest" ->
         [method |-> "POST",
          endpoint |-> <<"/date-events/request/", a.id, "/respond">>]

\* the message of the ApiError the method's catch block makes
WrapMessage(method) ==
  CASE method = "login" -> "Login failed"
    [] method = "getUserById" -> "Failed to get user"
    [] method = "deleteUser" -> "Failed to delete user account"
    [] method = "respondToDateRequest" -> "Failed to respond to date request"

\* the catch block throwing whatever it caught
CatchRethrowsAll(method, raised) == raised

\* the catch block: an ApiError is thrown on, anything else is wrapped
Catch(method, raised) ==
  IF raised.class = "ApiError" THEN raised
  ELSE ApiError(WrapMessage(method), 500)

\* what the method's own code throws on the data of a good response
ShapeThrows(method, body) ==
  IF method = "login"
  THEN CASE body.kind = "authData" -> NoError
         [] body.kind = "null" ->
              OtherError("TypeError", "Cannot read properties of null")
         [] OTHER -> OtherError("Error", "Invalid response format from backend")
  ELSE NoError

\* no fetch result: the call ended before its request
NoResult == [kind |-> "none"]

\* a service method is called: it rejects its arguments, or makes its request
Invoke(method, a) ==
  /\ svc.pc # "fetching"
  /\ Len(sent) < MaxRequests
  /\ IF Rejection(method, a) # NoError
     THEN /\ svc' = [pc |-> "threw", method |-> method, arg |-> a,
                     result |-> NoResult,
                     raised |-> Rejection(method, a),
                     escaped |-> Catch(method, Rejection(method, a)),
                     sentBefore |-> Len(sent)]
          /\ UNCHANGED clientVars
     ELSE /\ svc' = [pc |-> "fetching", method |-> method, arg |-> a,
                     sentBefore |-> Len(sent)]
          /\ token' = LoadedToken
          /\ sent' = Append(sent, [method |-> RequestOf(method, a).method,
                                   endpoint |-> RequestOf(method, a).endpoint,
                                   authorization |-> LoadedToken])
          /\ UNCHANGED <<storage, pendingOps, lastTokenCall>>
  /\ UNCHANGED <<authVars, passwordVars, deleteVars>>

\* the fetch of the call settles and the method returns or throws
FetchSettles(result) ==
  /\ svc.pc = "fetching"
  /\ LET method == svc.method
         raised == IF VerbThrows(result) # NoError THEN VerbThrows(result)
                   ELSE ShapeThrows(method, result.body)
     IN  IF raised # NoError
         THEN /\ svc' = [pc |-> "threw", method |-> method, arg |-> svc.arg,
                         result |-> result, raised |-> raised,
                         escaped |-> Catch(method, raised),
                         sentBefore |-> svc.sentBefore]
              /\ UNCHANGED clientVars
         ELSE /\ svc' = [pc |-> "returned", method |-> method,
                         arg |-> svc.arg, result |-> result,
                         sentBefore |-> svc.sentBefore]
              /\ IF method = "login"
                 THEN /\ setToken(IF result.body.token # Null
                                  THEN result.body.token ELSE TEMP_TOKEN)
                      /\ UNCHANGED <<storage, sent>>
                 ELSE UNCHANGED clientVars
  /\ UNCHANGED <<authVars, passwordVars, deleteVars>>

\* a storage operation settles: the item is written or removed, and the
\* code after the await runs
StorageSettles(op) ==
  /\ storage' = StorageAfter(op)
  /\ token' = TokenAfter(op)
  /\ pendingOps' = OpsAfter(op)
  /\ logout' = IF op.then = "logout:authToken"
               THEN [logout EXCEPT !.pc = "done"] ELSE logout
  /\ isLoading' = IF op.then = "load:migrated" THEN FALSE ELSE isLoading
  /\ load' = IF op.then = "load:migrated" THEN "done" ELSE load
  /\ UNCHANGED <<sent, lastTokenCall, user, serviceVars, passwordVars, deleteVars>>

NextService ==
  \/ \E method \in ServiceMethods : \E a \in ServiceArgs(method) :
       Invoke(method, a)
  \/ \E result \in FetchResults : FetchSettles(result)
  \/ \E op \in BagToSet(pendingOps) : StorageSettles(op)

SpecService == Init /\ [][NextService]_vars

(***************************************************************************)
(* Specification SpecAuth: the AuthProvider with the login screen and the  *)
(* API client, started over any stored session                             *)
(***************************************************************************)
\* the storage operations pending at most when authService.logout is called
MaxPending == 2

Users == {"u1"}
\* what an earlier run can have left under 'userData': nothing, a user in
\* the current format, a user in the old wrapped format, text that is not
\* JSON, and the JSON text null
StoredUserData ==
  {NoUserData, [format |-> "unparsable"], [format |-> "jsonNull"]}
    \cup {[format |-> f, user |-> u] : f \in {"current", "wrapped"}, u \in Users}
\* and under 'authToken'
StoredTokens == {Null, "t0"}

\* what the fetch of a session settles with: a rejection, or a good
\* response that carries the user and a token
SessionResults ==
  {[kind |-> "rejected"],
   [kind |-> "response", ok |-> TRUE, status |-> 200,
    body |-> [kind |-> "authData", token |-> "t1"]]}

InitAuth ==
  /\ InitPassword /\ InitApiClient /\ InitService /\ InitAuthProvider
  /\ InitDelete
  /\ storage \in [authToken : StoredTokens, userData : StoredUserData]

\* what AuthGuard renders
AuthGuard ==
  IF isLoading THEN "spinner"
  ELSE IF user = Null THEN "login" ELSE "children"

\* the mount effect calls loadUserData, which starts reading 'userData'
MountEffect ==
  /\ load = "mounting"
  /\ load' = "reading"
  /\ UNCHANGED <<user, isLoading, logout, clientVars, serviceVars,
                 passwordVars, deleteVars>>

\* loadUserData with isLoading cleared at the end of the try block only
LoadedNoFinally(storedUser) ==
  CASE storedUser.format = "none" ->
         [user |-> user, isLoading |-> FALSE, load |-> "done"]
    [] storedUser.format \in {"unparsable", "jsonNull"} ->
         [user |-> user, isLoading |-> isLoading, load |-> "done"]
    [] storedUser.format = "current" ->
         [user |-> storedUser.user, isLoading |-> FALSE, load |-> "done"]
    [] storedUser.format = "wrapped" ->
         [user |-> storedUser.user, isLoading |-> isLoading,
          load |-> "migrating"]

\* loadUserData from the value getItem gave to its next await or its end:
\* JSON.parse throwing and a property read on null go through catch to
\* finally
Loaded(storedUser) ==
  CASE storedUser.format \in {"none", "unparsable", "jsonNull"} ->
         [user |-> user, isLoading |-> FALSE, load |-> "done"]
    [] storedUser.format = "current" ->
         [user |-> storedUser.user, isLoading |-> FALSE, load |-> "done"]
    [] storedUser.format = "wrapped" ->
         [user |-> storedUser.user, isLoading |-> isLoading,
          load |-> "migrating"]

\* the read of 'userData' settles; platformStorage.getItem gives null when
\* the read failed
ReadSettles ==
  \E failed \in BOOLEAN :
    LET storedUser == IF failed THEN NoUserData ELSE storage["userData"]
        after == Loaded(storedUser)
    IN  /\ load = "reading"
        /\ user' = after.user
        /\ isLoading' = after.isLoading
        /\ load' = after.load
        /\ pendingOps' =
             IF after.load = "migrating"
             THEN StartOp(pendingOps,
                          [op |-> "setItem", key |-> "userData",
                           value |-> [format |-> "current",
                                      user |-> storedUser.user],
                           then |-> "load:migrated"])
             ELSE pendingOps
        /\ UNCHANGED <<logout, token, storage, sent, lastTokenCall,
                       serviceVars, passwordVars, deleteVars>>

\* the login screen runs its login mutation
LoginPressed ==
  /\ AuthGuard = "login"
  /\ Invoke("login", [id |-> Empty, accept |-> Null])

\* a screen behind the guard makes an API call
ApiCall ==
  /\ AuthGuard = "children"
  /\ Invoke("getUserById", [id |-> ValidId, accept |-> Null])

\* onSuccess of the login mutation: AuthContext.login(data.user)
ContextLogin ==
  \E u \in Users :
    /\ svc.pc = "returned" /\ svc.method = "login"
    /\ svc' = NoCall
    /\ user' = u
    /\ logout' = [pc |-> "idle", token |-> Null]
    /\ pendingOps' = StartOp(pendingOps,
                             [op |-> "setItem", key |-> "userData",
                              value |-> [format |-> "current", user |-> u],
                              then |-> "none"])
    /\ UNCHANGED <<isLoading, load, token, storage, sent, lastTokenCall,
                   passwordVars, deleteVars>>

\* AuthContext.logout from the profile screen: setUser(null), then the two
\* removeItem calls one after the other
ContextLogout ==
  /\ AuthGuard = "children"
  /\ logout.pc # "running"
  /\ user' = Null
  /\ logout' = [pc |-> "running", token |-> LoadedToken]
  /\ pendingOps' = StartOp(pendingOps,
                           [op |-> "removeItem", key |-> "userData",
                            value |-> NoUserData, then |-> "logout:userData"])
  /\ UNCHANGED <<isLoading, load, token, storage, sent, lastTokenCall,
                 serviceVars, passwordVars, deleteVars>>

NextAuth ==
  \/ MountEffect
  \/ ReadSettles
  \/ LoginPressed
  \/ ApiCall
  \/ \E result \in SessionResults : FetchSettles(result)
  \/ ContextLogin
  \/ ContextLogout
  \/ \E op \in BagToSet(pendingOps) : StorageSettles(op)

SpecAuth == InitAuth /\ [][NextAuth]_vars

\* the mount effect runs, and storage reads and writes settle
SpecAuthFair ==
  /\ SpecAuth
  /\ WF_vars(MountEffect)
  /\ WF_vars(ReadSettles)
  /\ WF_vars(\E op \in BagToSet(pendingOps) : StorageSettles(op))

(***************************************************************************)
(* Specification SpecTokens: the token methods of authService called in    *)
(* any order, with API calls in between                                    *)
(***************************************************************************)
\* authService.setToken(token): apiClient.setToken(token)
AuthServiceSetToken ==
  \E t \in ResponseTokens :
    /\ BagCardinality(pendingOps) < MaxPending
    /\ setToken(t)
    /\ UNCHANGED <<storage, sent, serviceVars, authVars, passwordVars, deleteVars>>

\* authService.clearToken() and authService.logout(): apiClient.clearToken()
AuthServiceClearToken ==
  /\ BagCardinality(pendingOps) < MaxPending
  /\ clearToken
  /\ UNCHANGED <<storage, sent, serviceVars, authVars, passwordVars, deleteVars>>

NextTokens ==
  \/ AuthServiceSetToken
  \/ AuthServiceClearToken
  \/ \E op \in BagToSet(pendingOps) : StorageSettles(op)
  \/ Invoke("getUserById", [id |-> ValidId, accept |-> Null])
  \/ \E result \in SessionResults : FetchSettles(result)

SpecTokens == Init /\ [][NextTokens]_vars

(***************************************************************************)
(* The delete-account modal and the profile screen that shows it           *)
(***************************************************************************)
\* the calls of onConfirm a run follows
MaxConfirms == 2

\* 'delete'
CONFIRM_WORD == <<100, 101, 108, 101, 116, 101>>

\* the confirmation texts of testDeleteConfirmation
ConfirmationInputs ==
  {<<100, 101, 108, 101, 116, 101>>,
   <<68, 69, 76, 69, 84, 69>>,
   <<68, 101, 108, 101, 116, 101>>,
   <<100, 101, 108, 116, 101>>,
   <<100, 101, 108>>,
   Empty,
   <<100, 101, 108, 101, 116, 101, 32, 97, 99, 99, 111, 117, 110, 116>>,
   <<32, 100, 101, 108, 101, 116, 101, 32>>}

PLEASE_TYPE == "Please type \"delete\" to confirm"

\* the Delete button's disabled prop without the isDeleting test
DeleteDisabledTextOnly ==
  toLowerCase(confirmationText) # CONFIRM_WORD

\* the Delete button's disabled prop
DeleteDisabled ==
  toLowerCase(confirmationText) # CONFIRM_WORD \/ isDeleting

\* onChangeText of the input, which is editable while no deletion runs
ChangeText ==
  \E text \in ConfirmationInputs :
    /\ showDeleteModal /\ ~isDeleting
    /\ confirmationText' = text
    /\ error' = ""
    /\ UNCHANGED <<onConfirmCalls, profileVars, clientVars, serviceVars,
                   authVars, passwordVars>>

\* handleClose: clears the modal's states and calls the onClose prop
handleClose(onClose) ==
  /\ confirmationText' = Empty
  /\ error' = ""
  /\ onClose
  /\ UNCHANGED <<onConfirmCalls, clientVars, serviceVars, authVars,
                 passwordVars>>

\* the Cancel button, disabled while a deletion runs
PressCancel(onClose) ==
  /\ showDeleteModal /\ ~isDeleting
  /\ handleClose(onClose)

\* onRequestClose of the Modal (the back button)
RequestClose(onClose) ==
  /\ showDeleteModal
  /\ handleClose(onClose)

\* handleConfirm up to its await of the onConfirm prop
handleConfirm(onConfirm) ==
  IF toLowerCase(confirmationText) # CONFIRM_WORD
  THEN /\ error' = PLEASE_TYPE
       /\ UNCHANGED <<confirmationText, onConfirmCalls, profileVars>>
  ELSE /\ error' = ""
       /\ onConfirmCalls' =
            Append(onConfirmCalls,
                   [text |-> confirmationText, isDeleting |-> isDeleting])
       /\ onConfirm
       /\ UNCHANGED confirmationText

\* the Delete button
PressDelete(onConfirm) ==
  /\ showDeleteModal /\ ~DeleteDisabled
  /\ Len(onConfirmCalls) < MaxConfirms
  /\ handleConfirm(onConfirm)
  /\ UNCHANGED <<clientVars, serviceVars, authVars, passwordVars>>

(***************************************************************************)
(* Specification SpecModal: the modal under a parent that passes any       *)
(* props and whose onConfirm settles later, either way                     *)
(***************************************************************************)
\* the parent renders the modal with new visible and isDeleting props
ParentRenders ==
  \E v \in BOOLEAN, d \in BOOLEAN :
    /\ showDeleteModal' = v
    /\ isDeleting' = d
    /\ UNCHANGED <<alerts, confirming, modalVars, clientVars, serviceVars,
                   authVars, passwordVars>>

\* an onClose prop
ParentOnClose ==
  \E v \in BOOLEAN :
    /\ showDeleteModal' = v
    /\ UNCHANGED <<isDeleting, alerts, confirming>>

\* an onConfirm prop: it returns a promise
ParentOnConfirm ==
  \E d \in BOOLEAN :
    /\ isDeleting' = d
    /\ confirming' = confirming + 1
    /\ UNCHANGED <<showDeleteModal, alerts>>

\* the promise of onConfirm settles and handleConfirm goes on: nothing more
\* when it resolved, the alert and setError('') when it rejected
ConfirmSettles ==
  \E rejected \in BOOLEAN :
    /\ confirming > 0
    /\ confirming' = confirming - 1
    /\ alerts' = IF rejected THEN alerts + 1 ELSE alerts
    /\ error' = IF rejected THEN "" ELSE error
    /\ UNCHANGED <<showDeleteModal, isDeleting, confirmationText,
                   onConfirmCalls, clientVars, serviceVars, authVars,
                   passwordVars>>

NextModal ==
  \/ ParentRenders
  \/ ChangeText
  \/ PressCancel(ParentOnClose)
  \/ RequestClose(ParentOnClose)
  \/ PressDelete(ParentOnConfirm)
  \/ ConfirmSettles

SpecModal == Init /\ [][NextModal]_vars

(***************************************************************************)
(* Specification SpecProfile: the profile screen of a logged-in user with  *)
(* its delete-account modal and its logout button                          *)
(***************************************************************************)
\* the keys of the value the AuthProvider gives to useAuth()
ContextValue ==
  {"user", "isAuthenticated", "isLoading", "login", "signup", "googleLogin",
   "logout", "updateUser"}

\* what calling a function taken from useAuth() throws at once: a key the
\* value does not have is undefined, and calling undefined is a TypeError
CallThrows(name) ==
  IF name \in ContextValue THEN NoError
  ELSE OtherError("TypeError", "deleteUser is not a function")

\* the screen behind the guard with a stored session
InitProfile ==
  /\ InitPassword /\ InitApiClient /\ InitService /\ InitDelete
  /\ user \in Users
  /\ isLoading = FALSE
  /\ load = "done"
  /\ logout = [pc |-> "idle", token |-> Null]
  /\ storage \in [authToken : StoredTokens,
                  userData : {[format |-> "current", user |-> user]}]

\* the Delete Account button of the screen
OpenDeleteModal ==
  /\ AuthGuard = "children"
  /\ ~showDeleteModal
  /\ showDeleteModal' = TRUE
  /\ UNCHANGED <<isDeleting, alerts, confirming, modalVars, clientVars,
                 serviceVars, authVars, passwordVars>>

\* the onClose the screen passes
CloseDeleteModal ==
  /\ showDeleteModal' = FALSE
  /\ UNCHANGED <<isDeleting, alerts, confirming>>

\* handleDeleteAccount, the onConfirm the screen passes: the call of
\* deleteUser throws inside the try block before anything is awaited, the
\* catch block shows the alert and the finally block clears isDeleting
handleDeleteAccount ==
  LET thrown == CallThrows("deleteUser")
  IN  /\ showDeleteModal' = IF thrown = NoError THEN FALSE
                            ELSE showDeleteModal
      /\ alerts' = IF thrown = NoError THEN alerts ELSE alerts + 1
      /\ isDeleting' = FALSE
      /\ UNCHANGED confirming

\* the modal as the screen renders it, while the guard shows the screen
ProfileChangeText == AuthGuard = "children" /\ ChangeText

ProfilePressCancel == AuthGuard = "children" /\ PressCancel(CloseDeleteModal)

ProfileRequestClose ==
  AuthGuard = "children" /\ RequestClose(CloseDeleteModal)

ProfilePressDelete ==
  AuthGuard = "children" /\ PressDelete(handleDeleteAccount)

NextProfile ==
  \/ OpenDeleteModal
  \/ ProfileChangeText
  \/ ProfilePressCancel
  \/ ProfileRequestClose
  \/ ProfilePressDelete
  \/ ContextLogout
  \/ \E op \in BagToSet(pendingOps) : StorageSettles(op)

SpecProfile == InitProfile /\ [][NextProfile]_vars

(***************************************************************************)
(* The service methods: what they send and what they throw                 *)
(***************************************************************************)
\* the fetch calls the current service call has made
RequestsOfCall == SubSeq(sent, svc.sentBefore + 1, Len(sent))

\* C21: userService.deleteUser rejects the empty id and the string
\* 'undefined' by throwing an ApiError with status 400 without issuing a
\* DELETE request; for any other id it issues exactly one DELETE
\* /users/{id}.
C21_DeleteUserRejectsOrDeletesOnce ==
  (svc.pc # "idle" /\ svc.method = "deleteUser") =>
    IF svc.arg.id \in {Empty, Undefined}
    THEN /\ svc.pc = "threw"
         /\ svc.escaped.class = "ApiError" /\ svc.escaped.status = 400
         /\ RequestsOfCall = <<>>
    ELSE /\ Len(RequestsOfCall) = 1
         /\ RequestsOfCall[1].method = "DELETE"
         /\ RequestsOfCall[1].endpoint = <<"/users/", svc.arg.id>>

\* deleteUser('undefined') has thrown its ApiError after an earlier call
\* made a request, and the log of requests has not grown
C21_Witness ==
  /\ svc.pc = "threw" /\ svc.method = "deleteUser"
  /\ svc.arg.id = Undefined
  /\ svc.escaped.status = 400
  /\ Len(sent) >= 1 /\ svc.sentBefore = Len(sent)

\* C29: every error that escapes a service method is an ApiError: an
\* ApiError raised inside (an HTTP failure with the status of the response,
\* or a 400 rejection of the arguments) is thrown on unchanged, and any
\* other failure (a rejected fetch, an unexpected response shape) is wrapped
\* as an ApiError with status 500.
C29_OnlyApiErrorsEscape ==
  svc.pc = "threw" =>
    /\ svc.escaped.class = "ApiError"
    /\ svc.raised.class = "ApiError" => svc.escaped = svc.raised
    /\ svc.raised.class # "ApiError" => svc.escaped.status = 500
    /\ svc.result.kind = "none" => svc.escaped.status = 400
    /\ svc.result.kind = "rejected" => svc.escaped.status = 500
    /\ (svc.result.kind = "response" /\ ~svc.result.ok) =>
         svc.escaped.status = svc.result.status
    /\ (svc.result.kind = "response" /\ svc.result.ok) =>
         svc.escaped.status = 500

\* a rejected fetch inside getUserById has escaped as an ApiError with
\* status 500
C29_Witness ==
  /\ svc.pc = "threw" /\ svc.method = "getUserById"
  /\ svc.result.kind = "rejected"
  /\ svc.raised.class = "TypeError"
  /\ svc.escaped = ApiError("Failed to get user", 500)

(***************************************************************************)
(* Sessions and tokens                                                     *)
(***************************************************************************)
\* C26: after AuthContext.logout has completed, no API request carries an
\* Authorization header with the token of the session that was logged out.
C26_NoRequestWithLoggedOutToken ==
  [][(/\ Len(sent') > Len(sent)
      /\ logout.pc = "done"
      /\ logout.token # Null)
     => sent'[Len(sent')].authorization # logout.token]_vars

\* C27: when setToken(t) has been followed by clearToken() and every
\* pending storage operation has settled, in whatever order, getToken()
\* returns null and storage holds no 'authToken' item.
C27_ClearedOnceSettled ==
  (lastTokenCall = "clearToken" /\ pendingOps = EmptyBag) =>
    (token = Null /\ storage["authToken"] = Null)

\* C28: after AuthProvider mounts isLoading eventually becomes false on
\* every path of the initial load and never becomes true again, and while
\* it is true AuthGuard renders neither the login screen nor the children.
C28_LoadingEnds ==
  /\ <>[](~isLoading)
  /\ [][~isLoading => ~isLoading']_vars
  /\ [](isLoading => AuthGuard \notin {"login", "children"})

\* a user stored in the old wrapped format has been set and is being
\* written back: isLoading is still true and AuthGuard shows the spinner
C28_Witness ==
  /\ load = "migrating"
  /\ isLoading /\ user # Null
  /\ AuthGuard = "spinner"
  /\ pendingOps # EmptyBag

(***************************************************************************)
(* The delete-account flow                                                 *)
(***************************************************************************)
\* "DELETE", "Delete", " delete "
TextDeleteUpper == <<68, 69, 76, 69, 84, 69>>
TextDeleteCapital == <<68, 101, 108, 101, 116, 101>>
TextDeletePadded == <<32, 100, 101, 108, 101, 116, 101, 32>>

\* text is 'delete' written in small or capital letters
IsDeleteInAnyCase(text) ==
  /\ Len(text) = Len(CONFIRM_WORD)
  /\ \A i \in 1..Len(text) :
       text[i] = CONFIRM_WORD[i] \/ text[i] = CONFIRM_WORD[i] - 32

\* C22: the delete-account modal calls onConfirm only when the typed text,
\* lowercased and not trimmed, is exactly 'delete' and no deletion is in
\* progress: every call was made with such a text and isDeleting false, and
\* pressing the Delete button in any other state calls nothing.
C22_ConfirmOnlyOnDelete ==
  /\ \A i \in 1..Len(onConfirmCalls) :
       /\ IsDeleteInAnyCase(onConfirmCalls[i].text)
       /\ ~onConfirmCalls[i].isDeleting
  /\ (~IsDeleteInAnyCase(confirmationText) \/ isDeleting) => DeleteDisabled

\* onConfirm was called for "DELETE" and for "Delete", and now " delete "
\* is typed with no deletion running and the Delete button is disabled
C22_Witness ==
  /\ Len(onConfirmCalls) = 2
  /\ onConfirmCalls[1].text = TextDeleteUpper
  /\ onConfirmCalls[2].text = TextDeleteCapital
  /\ showDeleteModal /\ ~isDeleting
  /\ confirmationText = TextDeletePadded
  /\ DeleteDisabled

\* C23: once a confirmed deletion in the profile screen has run, a DELETE
\* on /users/{userId} has been sent, the user data is gone from storage and
\* the user is null, so that the guard shows the login screen.
C23_ConfirmedDeletionLogsOut ==
  (onConfirmCalls # <<>> /\ ~isDeleting /\ confirming = 0) =>
    /\ \E i \in 1..Len(sent) :
         sent[i].method = "DELETE" /\ sent[i].endpoint[1] = "/users/"
    /\ storage["userData"] = NoUserData
    /\ user = Null
    /\ AuthGuard = "login"

====
